---- MODULE Spec2Model ----
(***************************************************************************)
(* A model of p.py, the P2P analysis script: one Streamlit script that is  *)
(* re-executed from top to bottom on every user interaction.  The state is *)
(* the uploader widget, the session store, the sidebar selection, the      *)
(* wall clock and what the last execution displayed.                       *)
(*                                                                         *)
(* Cells.  A parsed cell is a nullable value: <<>> is NaN / NaT / None and *)
(* <<v>> holds v (an integer for numbers and dates, a string for text).    *)
(* A raw spreadsheet cell of a date or numeric column is a record          *)
(* [t, v]: t = "value" (a well-typed cell holding v), t = "text" (a string *)
(* that does not parse) or t = "empty".  Dates are day numbers counted     *)
(* from 2024-01-01 (day 0).                                                *)
(***************************************************************************)
EXTENDS Integers, Sequences, FiniteSets, TLC

VARIABLES
    uploaded_file,    \* the uploader widget: None or <<file>>
    session_state,    \* st.session_state of the current session
    analysis_option,  \* the sidebar selectbox
    now,              \* the wall clock pd.Timestamp.today() reads
    served,           \* what the last execution showed in the main area
    download,         \* the report the last execution offered
    quicksort_ties,   \* how the build's quicksort leaves equal values
    disk,             \* the files the user has at hand
    stored,           \* history: the snapshot this session processed and
                      \* the tables the processing block stored for it
    previous,         \* history: the same, of the session before
    sessions          \* the number of sessions opened so far

vars == <<uploaded_file, session_state, analysis_option, now, served,
          download, quicksort_ties, disk, stored, previous, sessions>>

----------------------------------------------------------------------------
(* Bounds of the model *)

MaxRows == 2

MaxNow == 1

MaxSessions == 2

----------------------------------------------------------------------------
(* Nullable cells and NaN-propagating arithmetic (pandas / numpy) *)

NaN == <<>>

Num(n) == <<n>>

Str(s) == <<s>>

IsNa(c) == c = <<>>

Val(c) == c[1]

\* Comparisons with NaN / NaT are False.
Gt(a, b) == ~IsNa(a) /\ ~IsNa(b) /\ Val(a) > Val(b)

Lt(a, b) == ~IsNa(a) /\ ~IsNa(b) /\ Val(a) < Val(b)

Ge(a, b) == ~IsNa(a) /\ ~IsNa(b) /\ Val(a) >= Val(b)

Eq(a, b) == ~IsNa(a) /\ ~IsNa(b) /\ Val(a) = Val(b)

\* Subtraction propagates NaN / NaT.
Sub(a, b) == IF IsNa(a) \/ IsNa(b) THEN NaN ELSE Num(Val(a) - Val(b))

Neg(a) == IF IsNa(a) THEN NaN ELSE Num(0 - Val(a))

Min(a, b) == IF a <= b THEN a ELSE b

\* Raw spreadsheet cells.
Cell(v) == [t |-> "value", v |-> v]

Garbage == [t |-> "text", v |-> 0]

Empty == [t |-> "empty", v |-> 0]

\* pd.to_datetime(errors='coerce') and pd.to_numeric(errors='coerce'):
\* a cell that does not parse, or an empty cell, becomes NaT / NaN.
to_datetime(c) == IF c.t = "value" THEN Num(c.v) ELSE NaN

to_numeric(c) == IF c.t = "value" THEN Num(c.v) ELSE NaN

\* .dt.to_period('M').astype(str): the month of a date as text; the period
\* of NaT is NaT and its text is the string 'NaT'.
MonthStr(d) ==
    IF IsNa(d) THEN Str("NaT")
    ELSE IF Val(d) < 31 THEN Str("2024-01")
    ELSE IF Val(d) < 60 THEN Str("2024-02")
    ELSE Str("2024-03")

\* The strings of the model in Python's string order (by code point).
StringOrder ==
    <<"2024-01", "2024-02", "2024-03", "Acme", "Bolt", "E1", "E2", "IT",
      "Laptop", "NON-IT", "NaT", "Paper", "Support", "Travel", "V100", "V200">>

StrRank(s) == CHOOSE i \in 1..Len(StringOrder) : StringOrder[i] = s

----------------------------------------------------------------------------
(* Sequences *)

RECURSIVE LexLess(_, _)
LexLess(a, b) ==
    IF a = <<>> \/ b = <<>> THEN a = <<>> /\ b # <<>>
    ELSE IF Head(a) # Head(b) THEN Head(a) < Head(b)
    ELSE LexLess(Tail(a), Tail(b))

\* The permutation a stable sort computes: keys[i] is the tuple of integers
\* row i is sorted by (ascending); equal keys keep their order.
StableOrder(keys) ==
    LET n == Len(keys)
        Before(j, i) == LexLess(keys[j], keys[i]) \/ (keys[j] = keys[i] /\ j < i)
    IN [p \in 1..n |->
          CHOOSE i \in 1..n : Cardinality({j \in 1..n : Before(j, i)}) = p - 1]

\* A sort that is not stable: equal keys come out in the reverse order.
ReversingOrder(keys) ==
    LET n == Len(keys)
        Before(j, i) == LexLess(keys[j], keys[i]) \/ (keys[j] = keys[i] /\ j > i)
    IN [p \in 1..n |->
          CHOOSE i \in 1..n : Cardinality({j \in 1..n : Before(j, i)}) = p - 1]

Permute(s, order) == [p \in 1..Len(s) |-> s[order[p]]]

----------------------------------------------------------------------------
(* The columns of the uploaded sheet *)

KeyColumns ==
    {"VendorName", "VendorNumber", "EntityName", "ITNONIT",
     "MaterialDescription", "ServiceArea"}

DateColumns == {"DocumentDate", "DeliveryDate"}

numeric_cols ==
    {"POOrderedValue", "POInvoiceValue", "OrderedQuantity", "DeliveryQuantity",
     "PODownPayment", "StillToDeliver"}

ReferenceColumns == {"GRDocumentNumber", "IRDocumentNumber"}

\* The columns the processing block reads by name; reading a column the
\* sheet does not have raises KeyError.
ColumnsRead == KeyColumns \cup DateColumns \cup numeric_cols \cup ReferenceColumns

AllColumns == ColumnsRead \cup {"PurchasingDocumentNumber"}

output_columns ==
    {"PurchasingDocumentNumber", "DocumentDate", "DeliveryDate", "DeliveryDelay",
     "WhyPODelay", "ITNONIT", "VendorNumber", "EntityName"}

Project(r, cols) == [c \in cols \cup {"index"} |-> r[c]]

\* df[missing column] raises KeyError.
RaisesKeyError(file) == ~(ColumnsRead \subseteq file.columns)

----------------------------------------------------------------------------
(* Derived fields, one row at a time *)

Month(document_date) == MonthStr(document_date)

\* The anomaly as the negation of 'delivered on or after the document date',
\* which is true of a missing date.
Delivery_Date_Anomaly_Negated(document_date, delivery_date) ==
    ~Ge(delivery_date, document_date)

Delivery_Date_Anomaly(document_date, delivery_date) == Lt(delivery_date, document_date)

Date_Difference(document_date, delivery_date) == Sub(delivery_date, document_date)

FillNa(c, v) == IF IsNa(c) THEN Num(v) ELSE c

\* The delay with the missing differences filled with 0.
Delivery_Delay_FillZero(document_date, delivery_date) ==
    FillNa(Sub(delivery_date, document_date), 0)

\* (Delivery Date - Document Date).dt.days.fillna(-1)
Delivery_Delay(document_date, delivery_date) == FillNa(Sub(delivery_date, document_date), -1)

\* The reason given only below the fill value.
Why_PO_Delay_BelowFill(x) == IF Val(x) < -1 THEN Str("PO raised after delivery") ELSE Str("")

Why_PO_Delay(x) == IF Val(x) < 0 THEN Str("PO raised after delivery") ELSE Str("")

Overbilling_Flag(ordered, invoiced) == Gt(invoiced, ordered)

Overbilling_Amount(ordered, invoiced) == Sub(invoiced, ordered)

On_Time(delivery_date, still_to_deliver, current_date) ==
    Ge(delivery_date, Num(current_date)) \/ Eq(still_to_deliver, Num(0))

\* Lines 25-26: the date columns parsed in place.
ParseDates(r) ==
    [r EXCEPT !.DocumentDate = to_datetime(@), !.DeliveryDate = to_datetime(@)]

\* Lines 29-37.
AddDateColumns(r) ==
    r @@ [Month |-> Month(r.DocumentDate),
          Delivery_Date_Anomaly |-> Delivery_Date_Anomaly(r.DocumentDate, r.DeliveryDate),
          Date_Difference |-> Date_Difference(r.DocumentDate, r.DeliveryDate),
          DeliveryDelay |-> Delivery_Delay(r.DocumentDate, r.DeliveryDate)]

\* Line 38.
AddWhyPODelay(r) == r @@ [WhyPODelay |-> Why_PO_Delay(r.DeliveryDelay)]

\* Lines 41-43: the six numeric columns coerced in place.
CoerceNumeric(r) ==
    [r EXCEPT !.POOrderedValue = to_numeric(@),
              !.POInvoiceValue = to_numeric(@),
              !.OrderedQuantity = to_numeric(@),
              !.DeliveryQuantity = to_numeric(@),
              !.PODownPayment = to_numeric(@),
              !.StillToDeliver = to_numeric(@)]

\* Line 46.
AddOverbillingFlag(r) ==
    r @@ [Overbilling_Flag |-> Overbilling_Flag(r.POOrderedValue, r.POInvoiceValue)]

\* Line 50.
AddOverbillingAmount(r) ==
    r @@ [OverbillingAmount |-> Overbilling_Amount(r.POOrderedValue, r.POInvoiceValue)]

\* Line 57.
AddOnTime(r, current_date) ==
    r @@ [On_Time |-> On_Time(r.DeliveryDate, r.StillToDeliver, current_date)]

\* A row of the record table as it stands after lines 46, 50 and 57.
WithFlag(r) == AddOverbillingFlag(CoerceNumeric(AddWhyPODelay(AddDateColumns(ParseDates(r)))))

WithAmount(r) == AddOverbillingAmount(WithFlag(r))

WithOnTime(r, current_date) == AddOnTime(WithAmount(r), current_date)

MapRows(rows, F(_)) == [i \in 1..Len(rows) |-> F(rows[i])]

FlagColumns ==
    {"Month", "Delivery_Date_Anomaly", "Date_Difference", "DeliveryDelay", "WhyPODelay",
     "Overbilling_Flag"}

\* A DataFrame: its column names and its rows (each row carries its index label).
Frame(columns, rows) == [columns |-> columns, rows |-> rows]

Filter(frame, Test(_)) == Frame(frame.columns, SelectSeq(frame.rows, Test))

FlaggedFrame(file) ==
    Frame(file.columns \cup FlagColumns, MapRows(file.rows, WithFlag))

AmountFrame(file) ==
    Frame(file.columns \cup FlagColumns \cup {"OverbillingAmount"},
          MapRows(file.rows, WithAmount))

DerivedFrame(file, current_date) ==
    Frame(file.columns \cup FlagColumns \cup {"OverbillingAmount", "On_Time"},
          MapRows(file.rows, LAMBDA r : WithOnTime(r, current_date)))

----------------------------------------------------------------------------
(* Aggregation: DataFrame.groupby(keys).agg(sum).reset_index() *)

TopN == 10

KeyOf(r, keys) == [i \in 1..Len(keys) |-> r[keys[i]]]

HasNullKey(r, keys) == \E i \in 1..Len(keys) : IsNa(r[keys[i]])

\* A groupby that keeps the rows with a null key (dropna=False).
GroupedRowsKeepingNulls(rows, keys) == rows

\* groupby drops the rows that have a null in a key column (dropna=True).
GroupedRows(rows, keys) == SelectSeq(rows, LAMBDA r : ~HasNullKey(r, keys))

KeysOf(rows, keys) == {KeyOf(rows[i], keys) : i \in 1..Len(rows)}

\* A null key sorts last.
KeyRank(k) ==
    [i \in 1..Len(k) |-> IF IsNa(k[i]) THEN Len(StringOrder) + 1 ELSE StrRank(Val(k[i]))]

KeyBefore(a, b) == LexLess(KeyRank(a), KeyRank(b))

\* The distinct keys in sorted order (sort=True).
SortKeys(ks) ==
    [p \in 1..Cardinality(ks) |->
        CHOOSE k \in ks : Cardinality({k2 \in ks : KeyBefore(k2, k)}) = p - 1]

\* sum skips NaN: a null cell adds nothing, and a group of nulls sums to 0.
RECURSIVE SumColumn(_, _)
SumColumn(rows, col) ==
    IF rows = <<>> THEN 0
    ELSE (IF IsNa(Head(rows)[col]) THEN 0 ELSE Val(Head(rows)[col]))
         + SumColumn(Tail(rows), col)

GroupSum(rows, keys, k, col) ==
    SumColumn(SelectSeq(rows, LAMBDA r : KeyOf(r, keys) = k), col)

KeyPosition(keys, c) == CHOOSE i \in 1..Len(keys) : keys[i] = c

KeySet(keys) == {keys[i] : i \in 1..Len(keys)}

\* One row per key, the key columns followed by the sums; reset_index
\* numbers the rows 0, 1, ...
Aggregate(rows, sorted, keys, cols) ==
    [p \in 1..Len(sorted) |->
        [c \in KeySet(keys) \cup cols \cup {"index"} |->
            IF c = "index" THEN p - 1
            ELSE IF c \in KeySet(keys) THEN sorted[p][KeyPosition(keys, c)]
            ELSE Num(GroupSum(rows, keys, sorted[p], c))]]

AggregateGroups(rows, keys, cols) == Aggregate(rows, SortKeys(KeysOf(rows, keys)), keys, cols)

GroupBySum(rows, keys, cols) == AggregateGroups(GroupedRows(rows, keys), keys, cols)

SpendColumns == {"POOrderedValue", "POInvoiceValue", "PODownPayment"}

VendorKey == <<"VendorName", "VendorNumber", "EntityName", "ITNONIT">>

MaterialKey == <<"MaterialDescription", "ITNONIT">>

ServiceAreaKey == <<"ServiceArea", "ITNONIT">>

\* The three sums under the names the script gives them.
RenameSpend(r) ==
    [c \in DOMAIN r \ SpendColumns |-> r[c]]
    @@ [TotalPOOrderedValue |-> r.POOrderedValue,
        TotalPOInvoiceValue |-> r.POInvoiceValue,
        TotalPODownPayment |-> r.PODownPayment]

SpendTable(rows, keys) == MapRows(GroupBySum(rows, keys, SpendColumns), RenameSpend)

total_spend_by_vendor(df) == SpendTable(df.rows, VendorKey)

total_spend_by_material(df) == SpendTable(df.rows, MaterialKey)

total_spend_by_service_area(df) == SpendTable(df.rows, ServiceAreaKey)

DescendingKeys(table, col) == [i \in 1..Len(table) |-> <<0 - Val(table[i][col])>>]

\* The order a sort of the given keys leaves: equal keys "kept" in their
\* order, or "reversed".
SortOrder(keys, ties) == IF ties = "kept" THEN StableOrder(keys) ELSE ReversingOrder(keys)

\* sort_values(by=col, ascending=False) with the default kind='quicksort':
\* descending, and the order of equal values is what the build's sort leaves.
SortDescending(table, col, ties) ==
    Permute(table, SortOrder(DescendingKeys(table, col), ties))

head(table, n) == SubSeq(table, 1, Min(n, Len(table)))

top_10_vendors(spend, ties) == head(SortDescending(spend, "TotalPOOrderedValue", ties), TopN)

top_10_materials(spend, ties) == head(SortDescending(spend, "TotalPOOrderedValue", ties), TopN)

MonthlyKey == <<"Month", "VendorName", "VendorNumber", "EntityName", "ITNONIT">>

MonthlyKeys(t) ==
    [i \in 1..Len(t) |-> <<StrRank(Val(t[i].Month)), 0 - Val(t[i].POOrderedValue)>>]

\* Line 98: sort_values on two columns is a stable lexicographic sort, Month
\* ascending and ordered value descending.
SortMonthly(t) == Permute(t, StableOrder(MonthlyKeys(t)))

monthly_spend(df) == SortMonthly(GroupBySum(df.rows, MonthlyKey, SpendColumns))

\* The rows that are among the first n of their month, in the table's order.
HeadRows(table, n) ==
    {i \in 1..Len(table) :
        Cardinality({j \in 1..i : table[j].Month = table[i].Month}) <= n}

PickRows(table, kept) ==
    [p \in 1..Cardinality(kept) |->
        [table[CHOOSE i \in kept : Cardinality({j \in kept : j < i}) = p - 1]
            EXCEPT !.index = p - 1]]

\* groupby('Month').head(n).reset_index(drop=True)
GroupHead(table, n) == PickRows(table, HeadRows(table, n))

top_10_vendors_monthly(monthly) == MapRows(GroupHead(monthly, TopN), RenameSpend)

----------------------------------------------------------------------------
(* Vendor order summary *)

\* n / d rounded to the nearest integer, halves to the even one (numpy round).
RoundHalfEven(n, d) ==
    IF 2 * (n % d) < d THEN n \div d
    ELSE IF 2 * (n % d) > d THEN (n \div d) + 1
    ELSE IF (n \div d) % 2 = 0 THEN n \div d ELSE (n \div d) + 1

\* (Total_Delivered / Total_Orders) * 100, rounded to 2 decimals and held in
\* hundredths of a percent; a division by zero gives inf or NaN, here NaN.
PercentOf(delivered, orders) ==
    IF Val(orders) = 0 THEN NaN
    ELSE IF Val(orders) > 0 THEN Num(RoundHalfEven(10000 * Val(delivered), Val(orders)))
    ELSE Num(RoundHalfEven(0 - 10000 * Val(delivered), 0 - Val(orders)))

\* The ratio without the Total_Orders > 0 test of np.where.
Delivery_Percentage_Unguarded(total_orders, total_delivered) ==
    PercentOf(total_delivered, total_orders)

\* np.where(Total_Orders > 0, ratio, 0).round(2)
Delivery_Percentage(total_orders, total_delivered) ==
    IF Gt(total_orders, Num(0)) THEN PercentOf(total_delivered, total_orders) ELSE Num(0)

SummaryColumns ==
    {"OrderedQuantity", "DeliveryQuantity", "StillToDeliver"} \cup SpendColumns

\* Lines 112-123: the percentage column, and the columns under their names.
RenameSummary(r) ==
    [c \in DOMAIN r \ SummaryColumns |-> r[c]]
    @@ [TotalOrderedQuantity |-> r.OrderedQuantity,
        TotalDeliveredQuantity |-> r.DeliveryQuantity,
        TotalPendingQuantity |-> r.StillToDeliver,
        TotalPOOrderedValue |-> r.POOrderedValue,
        TotalPOInvoiceValue |-> r.POInvoiceValue,
        TotalPODownPayment |-> r.PODownPayment,
        DeliveryPercentage |-> Delivery_Percentage(r.OrderedQuantity, r.DeliveryQuantity)]

vendor_summary(df) == MapRows(GroupBySum(df.rows, VendorKey, SummaryColumns), RenameSummary)

----------------------------------------------------------------------------
(* Row-level subsets *)

ProjectFrame(frame, cols) ==
    Frame(cols, MapRows(frame.rows, LAMBDA r : Project(r, cols)))

\* A filter on the delivery delay instead of the missing references.
IsLate(r) == Val(r.DeliveryDelay) > 0

\* df['GR Document Number'].isna() | df['IR Document Number'].isna()
IsDelayedPO(r) == IsNa(r.GRDocumentNumber) \/ IsNa(r.IRDocumentNumber)

\* existing_columns: the output columns the table has.
delayed_pos(df) == ProjectFrame(Filter(df, IsDelayedPO), output_columns \cap df.columns)

quantity_errors(df) == Filter(df, LAMBDA r : Gt(r.DeliveryQuantity, r.OrderedQuantity))

overbilling_cases(file) == Filter(FlaggedFrame(file), LAMBDA r : r.Overbilling_Flag)

\* The overbilled rows taken with amounts >= 0.
overbilling_df_NonNegative(file) ==
    Filter(AmountFrame(file), LAMBDA r : Ge(r.OverbillingAmount, Num(0)))

overbilling_df(file) == Filter(AmountFrame(file), LAMBDA r : Gt(r.OverbillingAmount, Num(0)))

\* The underbilling amount reported without inverting the sign.
AddUnderbillingAmount_SignKept(r) == r @@ [UnderbillingAmount |-> r.OverbillingAmount]

AddUnderbillingAmount(r) == r @@ [UnderbillingAmount |-> Neg(r.OverbillingAmount)]

AddColumn(frame, col, F(_)) == Frame(frame.columns \cup {col}, MapRows(frame.rows, F))

\* Lines 413-414 and 462-463: a copy of the underbilled rows, with the amount.
underbilling_df(df) ==
    AddColumn(Filter(df, LAMBDA r : Lt(r.OverbillingAmount, Num(0))),
              "UnderbillingAmount", AddUnderbillingAmount)

TrendColumns == {"POOrderedValue", "POInvoiceValue"}

spend_trend(df) == GroupBySum(df.rows, <<"Month">>, TrendColumns)

vendor_spend(df) == GroupBySum(df.rows, <<"VendorName">>, TrendColumns)

entity_spend(df) == GroupBySum(df.rows, <<"EntityName">>, {"POOrderedValue"})

----------------------------------------------------------------------------
(* Lines 20-168: the processing block *)

\* What st.session_state.update stores.
Tables(file, df, ties) ==
    [total_spend_by_vendor |-> total_spend_by_vendor(df),
     total_spend_by_material |-> total_spend_by_material(df),
     total_spend_by_service_area |-> total_spend_by_service_area(df),
     top_10_vendors |-> top_10_vendors(total_spend_by_vendor(df), ties),
     top_10_materials |-> top_10_materials(total_spend_by_material(df), ties),
     top_10_vendors_monthly |-> top_10_vendors_monthly(monthly_spend(df)),
     vendor_summary |-> vendor_summary(df),
     delayed_pos |-> delayed_pos(df),
     quantity_errors |-> quantity_errors(df),
     overbilling_cases |-> overbilling_cases(file),
     df |-> df,
     spend_trend |-> spend_trend(df),
     vendor_spend |-> vendor_spend(df),
     entity_spend |-> entity_spend(df),
     overbilling_df |-> overbilling_df(file),
     processed |-> TRUE]

Processed(file, current_date, ties) == Tables(file, DerivedFrame(file, current_date), ties)

----------------------------------------------------------------------------
(* Lines 170-434: the sidebar selection and the analysis views *)

AnalysisViews ==
    <<"Total Spend by Service Area",
      "Entity-wise Spend Analysis",
      "Spend by Entity",
      "Total Spend by Material",
      "Top 10 Materials by Spend",
      "Top 10 Vendors by Spend",
      "Spend Distribution by Vendor",
      "Monthly Top Vendors Trend",
      "Top Vendor Monthly Trend",
      "Total PO Order Value & PO Invoice Value Trend",
      "Pending Deliveries by Vendor",
      "Down Payment Analysis by Vendor",
      "Overbilling Analysis",
      "Underbilling Analysis">>

ViewNames == {AnalysisViews[i] : i \in 1..Len(AnalysisViews)}

AddPendingDeliveries(r) ==
    [c \in DOMAIN r \cup {"PendingDeliveries"} |->
        IF c = "PendingDeliveries" THEN Sub(r.OrderedQuantity, r.DeliveryQuantity)
        ELSE r[c]]

\* Lines 368-369: df = st.session_state.df names the stored table itself, and
\* the column assignment is made on it.
PendingDeliveries(df) == AddColumn(df, "PendingDeliveries", AddPendingDeliveries)

\* Line 206: sorted(entities) compares a missing entity (a float NaN) with a
\* name (a str), which raises TypeError.
EntityViewRaises(df) ==
    /\ \E i \in 1..Len(df.rows) : IsNa(df.rows[i].EntityName)
    /\ \E i \in 1..Len(df.rows) : ~IsNa(df.rows[i].EntityName)

ViewRaises(ss, option) ==
    option = "Entity-wise Spend Analysis" /\ EntityViewRaises(ss.df)

\* The session store after a view has been drawn.
RenderView(ss, option) ==
    IF option = "Pending Deliveries by Vendor"
    THEN [ss EXCEPT !.df = PendingDeliveries(@)]
    ELSE ss

----------------------------------------------------------------------------
(* Lines 436-477: the report *)

AnalysisColumns ==
    {"PurchasingDocumentNumber", "DocumentDate", "DeliveryDate", "VendorName",
     "VendorNumber", "EntityName", "ITNONIT", "POOrderedValue", "POInvoiceValue"}

\* frame[columns].sort_values(by=col, ascending=False)
AnalysisSheet(frame, col, ties) ==
    Frame(AnalysisColumns \cup {col},
          SortDescending(ProjectFrame(frame, AnalysisColumns \cup {col}).rows, col, ties))

overbilling_analysis(ss, ties) == AnalysisSheet(ss.overbilling_df, "OverbillingAmount", ties)

underbilling_analysis(ss, ties) ==
    AnalysisSheet(underbilling_df(ss.df), "UnderbillingAmount", ties)

\* Selecting a column the stored table does not have raises KeyError.
ReportRaises(ss) == ~(AnalysisColumns \subseteq ss.overbilling_df.columns)

NoDownload == [status |-> "none"]

ReportFailed == [status |-> "KeyError"]

Report(ss, ties) ==
    [status |-> "offered",
     TotalSpendByVendor |-> ss.total_spend_by_vendor,
     TotalSpendByMaterial |-> ss.total_spend_by_material,
     TotalSpendByServiceArea |-> ss.total_spend_by_service_area,
     Top10Vendors |-> ss.top_10_vendors,
     Top10Materials |-> ss.top_10_materials,
     Top10VendorsMonthly |-> ss.top_10_vendors_monthly,
     VendorAnalysis |-> ss.vendor_summary,
     DelayedPOs |-> ss.delayed_pos,
     QuantityErrors |-> ss.quantity_errors,
     OverbillingAnalysis |-> overbilling_analysis(ss, ties),
     UnderbillingAnalysis |-> underbilling_analysis(ss, ties)]

\* Lines 438-477: what the sidebar offers after the button.
Download(ss, clicked, ties) ==
    IF ~clicked THEN NoDownload
    ELSE IF ReportRaises(ss) THEN ReportFailed
    ELSE Report(ss, ties)

----------------------------------------------------------------------------
(* One execution of the script, top to bottom *)

None == <<>>

\* The guard without the processed flag: every run with a file processes it.
ProcessingRuns_WheneverUploaded(file, ss) == file # <<>>

\* Line 20: the processing block runs for a file while nothing is processed.
ProcessingRuns(file, ss) == file # None /\ ~ss.processed

\* An exception in the processing block ends the execution with the session
\* store as it was.
ProcessingRaises(file, ss) == ProcessingRuns(file, ss) /\ RaisesKeyError(file[1])

\* The outcome of an execution: the session store it leaves, what the main
\* area shows, what the sidebar offers for download, and (history) what the
\* processing block stored, if it ran.
Outcome(ss, shown, offered, kept) ==
    [session_state |-> ss, served |-> shown, download |-> offered, stored |-> kept]

\* Line 189 on: the views and the report, drawn from the session store.
Draw(ss, option, clicked, ties, kept) ==
    Outcome(ss, option, Download(ss, clicked, ties), kept)

Gate(ss, option, clicked, ties, kept) ==
    IF ~ss.processed THEN Outcome(ss, "info", NoDownload, kept)
    ELSE IF ViewRaises(ss, option) THEN Outcome(ss, "TypeError", NoDownload, kept)
    ELSE Draw(RenderView(ss, option), option, clicked, ties, kept)

\* st.session_state.update(...) and the record of it.
Store(file, ss, tables, option, clicked, ties) ==
    Gate(tables @@ ss, option, clicked, ties, <<[file |-> file, tables |-> tables]>>)

Script(file, ss, option, clicked, current_date, ties) ==
    IF ProcessingRaises(file, ss) THEN Outcome(ss, "KeyError", NoDownload, None)
    ELSE IF ProcessingRuns(file, ss)
    THEN Store(file[1], ss, Processed(file[1], current_date, ties), option, clicked, ties)
    ELSE Gate(ss, option, clicked, ties, None)

Finish(file, option, out) ==
    /\ uploaded_file' = file
    /\ analysis_option' = option
    /\ session_state' = out.session_state
    /\ served' = out.served
    /\ download' = out.download
    /\ stored' = IF out.stored = None THEN stored ELSE out.stored
    /\ UNCHANGED <<now, quicksort_ties, disk, previous, sessions>>

Run(file, option, clicked) ==
    Finish(file, option, Script(file, session_state, option, clicked, now, quicksort_ties))

\* The widgets an execution has drawn: the selectbox (line 171) unless the
\* processing block raised, the report button (line 438) when the view was drawn.
SelectboxDrawn == served # "KeyError"

ButtonDrawn == served \in ViewNames

----------------------------------------------------------------------------
(* The user's interactions; each one re-executes the script *)

UploadFile(f) ==
    /\ uploaded_file # <<f>>
    /\ Run(<<f>>, analysis_option, FALSE)

RemoveFile ==
    /\ uploaded_file # None
    /\ Run(None, analysis_option, FALSE)

SelectView(v) ==
    /\ SelectboxDrawn
    /\ v # analysis_option
    /\ Run(uploaded_file, v, FALSE)

GenerateReport ==
    /\ ButtonDrawn
    /\ Run(uploaded_file, analysis_option, TRUE)

\* Time passes.
Tick ==
    /\ now < MaxNow
    /\ now' = now + 1
    /\ UNCHANGED <<uploaded_file, session_state, analysis_option, served,
                   download, quicksort_ties, disk, stored, previous, sessions>>

\* The page is opened again: a new session, whose store is empty (lines 16-17)
\* and whose widgets are as first drawn; the script runs with no file.
NewSession ==
    /\ sessions < MaxSessions
    /\ sessions' = sessions + 1
    /\ previous' = stored
    /\ stored' = None
    /\ uploaded_file' = None
    /\ session_state' = [processed |-> FALSE]
    /\ analysis_option' = AnalysisViews[1]
    /\ served' = "info"
    /\ download' = NoDownload
    /\ UNCHANGED <<now, quicksort_ties, disk>>

----------------------------------------------------------------------------
(* The snapshots of the model *)

BaseRow ==
    [VendorName |-> Str("Acme"), VendorNumber |-> Str("V100"),
     EntityName |-> Str("E1"), ITNONIT |-> Str("IT"),
     MaterialDescription |-> Str("Laptop"), ServiceArea |-> Str("Support"),
     PurchasingDocumentNumber |-> Num(4500),
     DocumentDate |-> Cell(1), DeliveryDate |-> Cell(5),
     OrderedQuantity |-> Cell(3), DeliveryQuantity |-> Cell(3),
     StillToDeliver |-> Cell(0),
     POOrderedValue |-> Cell(500), POInvoiceValue |-> Cell(500),
     PODownPayment |-> Cell(10),
     GRDocumentNumber |-> Num(5000), IRDocumentNumber |-> Num(5100)]

\* The second vendor of the model, with its own material.
OfVendor(r, name) ==
    IF name = "Acme" THEN r
    ELSE [r EXCEPT !.VendorName = Str("Bolt"), !.VendorNumber = Str("V200"),
                   !.MaterialDescription = Str("Paper")]

\* A sheet with every column: its rows are numbered from 0 (the index).
FileOf(rows) ==
    [columns |-> AllColumns,
     rows |-> [i \in 1..Len(rows) |-> rows[i] @@ [index |-> i - 1]]]

\* The same sheet without one column.
WithoutColumn(file, col) ==
    [columns |-> file.columns \ {col},
     rows |-> MapRows(file.rows, LAMBDA r : [c \in DOMAIN r \ {col} |-> r[c]])]

FilesOf(pool) == {FileOf(rows) : rows \in UNION {[1..n -> pool] : n \in 0..MaxRows}}

\* Document and delivery dates: present, unparseable, empty; a delivery one
\* day before the document, after it, and in another month.
DateRows ==
    {[BaseRow EXCEPT !.DocumentDate = doc, !.DeliveryDate = del] :
        doc \in {Cell(1), Cell(32), Garbage}, del \in {Cell(0), Cell(33), Empty}}

\* Goods-receipt and invoice-receipt references, present or missing, on
\* deliveries that are early or late.
ReferenceRows ==
    {[BaseRow EXCEPT !.GRDocumentNumber = gr, !.IRDocumentNumber = ir,
                     !.DeliveryDate = del] :
        gr \in {Num(5000), NaN}, ir \in {Num(5100), NaN},
        del \in {Cell(0), Cell(33)}}

\* Ordered and invoiced values of two vendors: over, under, equal, unparseable.
BillingRows ==
    {OfVendor([BaseRow EXCEPT !.POOrderedValue = b[1], !.POInvoiceValue = b[2]], v) :
        b \in {<<Cell(300), Cell(500)>>, <<Cell(500), Cell(250)>>,
               <<Cell(500), Cell(500)>>, <<Garbage, Cell(500)>>,
               <<Cell(300), Empty>>},
        v \in {"Acme", "Bolt"}}

\* Grouping fields, present or missing, and a down payment that may not parse.
KeyRows ==
    {[BaseRow EXCEPT !.VendorName = vendor, !.ServiceArea = area, !.PODownPayment = pay] :
        vendor \in {Str("Acme"), Str("Bolt"), NaN},
        area \in {Str("Support"), NaN},
        pay \in {Cell(10), Garbage}}

\* Ordered and delivered quantities of two vendors.
QuantityRows ==
    {OfVendor([BaseRow EXCEPT !.OrderedQuantity = ord, !.DeliveryQuantity = del], v) :
        ord \in {Cell(0), Cell(3), Cell(32)},
        del \in {Cell(1), Cell(2)},
        v \in {"Acme", "Bolt"}}

\* An over-delivered order line that is still open, delivered on day 0.
OpenFile ==
    FileOf(<<[BaseRow EXCEPT !.DeliveryDate = Cell(0), !.DocumentDate = Cell(0),
                             !.DeliveryQuantity = Cell(4), !.StillToDeliver = Cell(1)]>>)

\* Three order lines: overbilled by 200, exact, underbilled by 50.
ExampleFile ==
    FileOf(<<[BaseRow EXCEPT !.POOrderedValue = Cell(1000), !.POInvoiceValue = Cell(1200)],
             [BaseRow EXCEPT !.POOrderedValue = Cell(500), !.POInvoiceValue = Cell(500)],
             OfVendor([BaseRow EXCEPT !.POOrderedValue = Cell(300),
                                      !.POInvoiceValue = Cell(250)], "Bolt")>>)

PipelineFiles ==
    FilesOf(DateRows) \cup FilesOf(ReferenceRows) \cup FilesOf(BillingRows)
    \cup FilesOf(KeyRows) \cup FilesOf(QuantityRows) \cup {ExampleFile}

SessionFiles ==
    {OpenFile, ExampleFile,
     WithoutColumn(OpenFile, "DocumentDate"),
     WithoutColumn(OpenFile, "PurchasingDocumentNumber")}

----------------------------------------------------------------------------
(* The specifications *)

Start ==
    /\ uploaded_file = None
    /\ session_state = [processed |-> FALSE]
    /\ analysis_option = AnalysisViews[1]
    /\ now = 0
    /\ served = "info"
    /\ download = NoDownload
    /\ quicksort_ties \in {"kept", "reversed"}
    /\ stored = None
    /\ previous = None
    /\ sessions = 1

\* A user with a few files at hand, working through sessions.
Init == Start /\ disk = SessionFiles

Next ==
    \/ \E f \in disk : UploadFile(f)
    \/ RemoveFile
    \/ \E v \in ViewNames : SelectView(v)
    \/ GenerateReport
    \/ Tick
    \/ NewSession

Spec == Init /\ [][Next]_vars

\* The processing block and the report applied to one snapshot, for every
\* snapshot of the model.
PipelineInit == Start /\ disk \in {{f} : f \in PipelineFiles}

PipelineNext ==
    \/ \E f \in disk : UploadFile(f)
    \/ GenerateReport

PipelineSpec == PipelineInit /\ [][PipelineNext]_vars

----------------------------------------------------------------------------
(* Properties.  They are stated on the history variable stored: the        *)
(* snapshot as uploaded (raw cells) and the tables the processing block    *)
(* stored for it.                                                          *)

Snapshot == stored[1].file

StoredTables == stored[1].tables

HasValue(c) == c.t = "value"

RowNumbers == 1..Len(Snapshot.rows)

\* C1 as claimed: the delivery delay is -1 if and only if the delivery date
\* is missing, and is the exact day difference when the dates are present.
C1_DelayIsMinusOneIffNoDelivery ==
    stored # None =>
        \A i \in RowNumbers :
            LET raw == Snapshot.rows[i]
                delay == StoredTables.df.rows[i].DeliveryDelay
            IN /\ (delay = Num(-1)) <=> ~HasValue(raw.DeliveryDate)
               /\ HasValue(raw.DeliveryDate) /\ HasValue(raw.DocumentDate)
                    => delay = Num(raw.DeliveryDate.v - raw.DocumentDate.v)

\* C1 (amended): the delivery delay is -1 whenever the delivery date or the
\* document date is missing or unparseable, and is the exact day difference
\* delivery date minus document date, negative or not, when both are present.
C1_DeliveryDelay ==
    stored # None =>
        \A i \in RowNumbers :
            LET raw == Snapshot.rows[i]
                delay == StoredTables.df.rows[i].DeliveryDelay
            IN IF HasValue(raw.DeliveryDate) /\ HasValue(raw.DocumentDate)
               THEN delay = Num(raw.DeliveryDate.v - raw.DocumentDate.v)
               ELSE delay = Num(-1)

\* A snapshot with an undated delivery and a delivery more than one day
\* before its document has been processed.
C1_Witness ==
    /\ stored # None
    /\ \E i \in RowNumbers : ~HasValue(Snapshot.rows[i].DeliveryDate)
    /\ \E i \in RowNumbers :
          /\ HasValue(Snapshot.rows[i].DeliveryDate)
          /\ HasValue(Snapshot.rows[i].DocumentDate)
          /\ Val(StoredTables.df.rows[i].DeliveryDelay) < -1

\* The months of the records that have a document date.
DatedMonths ==
    {MonthStr(Num(Snapshot.rows[i].DocumentDate.v)) :
        i \in {j \in RowNumbers : HasValue(Snapshot.rows[j].DocumentDate)}}

TableTotal(table, col) == SumColumn(table, col)

\* The sum of a raw column over the records that pass a test; a cell that is
\* not a number counts 0.
RECURSIVE RawTotal(_, _, _)
RawTotal(rows, col, included) ==
    IF rows = <<>> THEN 0
    ELSE (IF Head(rows).index \in included /\ HasValue(Head(rows)[col])
          THEN Head(rows)[col].v ELSE 0)
         + RawTotal(Tail(rows), col, included)

DatedRecords == {Snapshot.rows[i].index : i \in {j \in RowNumbers : HasValue(Snapshot.rows[j].DocumentDate)}}

\* C2 as claimed: no row of a period-keyed table stands for a missing
\* document date, and the sums of these tables leave the undated records out.
C2_UndatedRecordsInNoPeriod ==
    stored # None =>
        /\ \A p \in 1..Len(StoredTables.top_10_vendors_monthly) :
              StoredTables.top_10_vendors_monthly[p].Month \in DatedMonths
        /\ \A p \in 1..Len(StoredTables.spend_trend) :
              StoredTables.spend_trend[p].Month \in DatedMonths
        /\ TableTotal(StoredTables.spend_trend, "POOrderedValue")
              = RawTotal(Snapshot.rows, "POOrderedValue", DatedRecords)

\* The index labels of the rows of a table.
Labels(rows) == {rows[p].index : p \in 1..Len(rows)}

Overbilled == Labels(StoredTables.overbilling_df.rows)

Underbilled == Labels(underbilling_df(StoredTables.df).rows)

ExactlyBilled ==
    Labels(SelectSeq(StoredTables.df.rows, LAMBDA r : Eq(r.OverbillingAmount, Num(0))))

\* The number of the three billing sets a record is in.
BillingSetsOf(label) ==
    (IF label \in Overbilled THEN 1 ELSE 0)
    + (IF label \in Underbilled THEN 1 ELSE 0)
    + (IF label \in ExactlyBilled THEN 1 ELSE 0)

\* C3 as claimed: overbilling cases, underbilling cases and exact matches
\* partition the records; every record is in exactly one of the three.
C3_BillingSetsPartitionAllRecords ==
    stored # None =>
        \A i \in RowNumbers : BillingSetsOf(Snapshot.rows[i].index) = 1

\* C3 (amended): the three sets are pairwise disjoint; a record whose ordered
\* and invoiced values are both numeric is in exactly one of them, the one its
\* values decide, and a record with a value that failed coercion is in none.
C3_BillingSetsPartitionNumericRecords ==
    stored # None =>
        \A i \in RowNumbers :
            LET raw == Snapshot.rows[i]
            IN IF HasValue(raw.POOrderedValue) /\ HasValue(raw.POInvoiceValue)
               THEN /\ BillingSetsOf(raw.index) = 1
                    /\ raw.index \in Overbilled <=> raw.POInvoiceValue.v > raw.POOrderedValue.v
                    /\ raw.index \in Underbilled <=> raw.POInvoiceValue.v < raw.POOrderedValue.v
               ELSE BillingSetsOf(raw.index) = 0

\* A snapshot with an exact match and a record whose value did not parse.
C3_Witness ==
    /\ stored # None
    /\ \E i \in RowNumbers : Snapshot.rows[i].index \in ExactlyBilled
    /\ \E i \in RowNumbers : ~HasValue(Snapshot.rows[i].POOrderedValue)

\* The records that have every field of a grouping key.
Keyed(keys) ==
    {Snapshot.rows[i].index :
        i \in {j \in RowNumbers : \A n \in 1..Len(keys) : ~IsNa(Snapshot.rows[j][keys[n]])}}

Conserved(table, keys, total, col) ==
    TableTotal(table, total) = RawTotal(Snapshot.rows, col, Keyed(keys))

ConservedSpend(table, keys) ==
    /\ Conserved(table, keys, "TotalPOOrderedValue", "POOrderedValue")
    /\ Conserved(table, keys, "TotalPOInvoiceValue", "POInvoiceValue")
    /\ Conserved(table, keys, "TotalPODownPayment", "PODownPayment")

\* C4: the total of each summed metric over the rows of each full aggregate
\* table is the total of that metric over the records whose grouping fields
\* are all present, a cell that is not a number counting 0.
C4_Conservation ==
    stored # None =>
        /\ ConservedSpend(StoredTables.total_spend_by_vendor, VendorKey)
        /\ ConservedSpend(StoredTables.total_spend_by_material, MaterialKey)
        /\ ConservedSpend(StoredTables.total_spend_by_service_area, ServiceAreaKey)
        /\ ConservedSpend(StoredTables.vendor_summary, VendorKey)
        /\ Conserved(StoredTables.vendor_summary, VendorKey,
                     "TotalOrderedQuantity", "OrderedQuantity")
        /\ Conserved(StoredTables.vendor_summary, VendorKey,
                     "TotalDeliveredQuantity", "DeliveryQuantity")
        /\ Conserved(StoredTables.vendor_summary, VendorKey,
                     "TotalPendingQuantity", "StillToDeliver")

\* A snapshot with a record that has no vendor, and a record with a vendor
\* whose down payment did not parse.
C4_Witness ==
    /\ stored # None
    /\ \E i \in RowNumbers : IsNa(Snapshot.rows[i].VendorName)
    /\ \E i \in RowNumbers :
          /\ ~IsNa(Snapshot.rows[i].VendorName)
          /\ ~HasValue(Snapshot.rows[i].PODownPayment)
    /\ Len(StoredTables.total_spend_by_vendor) = 1

\* C5 as claimed: two runs of the pipeline on the same snapshot, in two
\* sessions and at whatever instants, store the same tables.
C5_SameSnapshotSameTables ==
    (stored # None /\ previous # None /\ previous[1].file = stored[1].file)
        => previous[1].tables = stored[1].tables

RequiredColumns == AllColumns

\* The uploaded snapshot lacks a required column, and nothing of another
\* snapshot is held in the session.
SchemaMismatch ==
    /\ uploaded_file # None
    /\ ~(RequiredColumns \subseteq uploaded_file[1].columns)
    /\ stored = None \/ stored[1].file = uploaded_file[1]

\* C6 as claimed: while the uploaded snapshot lacks a required column nothing
\* is stored for it, the processed flag stays False and neither a view nor a
\* report is served.
C6_SchemaMismatchBlocksEverything ==
    SchemaMismatch =>
        /\ stored = None
        /\ ~session_state.processed
        /\ DOMAIN session_state = {"processed"}
        /\ served \notin ViewNames
        /\ download.status # "offered"

\* C7 as claimed: whatever views and reports have been asked for, the session
\* holds every table exactly as the processing block stored it.
C7_ViewsLeaveTablesUnchanged ==
    stored # None => session_state = StoredTables

\* The percentage is the nearest hundredth of a percent to 100 * d / o.
NearestHundredth(pct, d, o) ==
    /\ 2 * (pct * o - 10000 * d) <= o
    /\ 2 * (10000 * d - pct * o) <= o

\* C8: in every row of the vendor summary the delivery percentage is a
\* number: 100 * delivered / ordered to 2 decimals when the ordered total is
\* positive, and 0 when it is not.
C8_DeliveryPercentage ==
    stored # None =>
        \A p \in 1..Len(StoredTables.vendor_summary) :
            LET r == StoredTables.vendor_summary[p]
            IN /\ ~IsNa(r.DeliveryPercentage)
               /\ IF Val(r.TotalOrderedQuantity) > 0
                  THEN NearestHundredth(Val(r.DeliveryPercentage),
                                        Val(r.TotalDeliveredQuantity),
                                        Val(r.TotalOrderedQuantity))
                  ELSE r.DeliveryPercentage = Num(0)

\* A summary with a vendor whose ordered total is 0 although something was
\* delivered, and a vendor whose percentage had to be rounded.
C8_Witness ==
    /\ stored # None
    /\ \E p \in 1..Len(StoredTables.vendor_summary) :
          /\ Val(StoredTables.vendor_summary[p].TotalOrderedQuantity) = 0
          /\ Val(StoredTables.vendor_summary[p].TotalDeliveredQuantity) > 0
    /\ \E p \in 1..Len(StoredTables.vendor_summary) :
          LET r == StoredTables.vendor_summary[p]
          IN /\ Val(r.TotalOrderedQuantity) > 0
             /\ (10000 * Val(r.TotalDeliveredQuantity)) % Val(r.TotalOrderedQuantity) # 0

\* Row a comes before row b in a descending stable sort by a column.
RanksBefore(a, b, col) ==
    \/ Val(a[col]) > Val(b[col])
    \/ Val(a[col]) = Val(b[col]) /\ a.index < b.index

\* top holds the first min(n, Len(full)) rows of the descending stable sort
\* of full by the ordered value.
IsStableTop(top, full, n) ==
    /\ Len(top) = Min(n, Len(full))
    /\ \A p \in 1..Len(top) : \E q \in 1..Len(full) : top[p] = full[q]
    /\ \A p, q \in 1..Len(top) :
          p < q => RanksBefore(top[p], top[q], "TotalPOOrderedValue")
    /\ \A p \in 1..Len(top) : \A q \in 1..Len(full) :
          full[q].index \notin Labels(top)
              => RanksBefore(top[p], full[q], "TotalPOOrderedValue")

\* Within each month the rows are in descending order of the ordered value,
\* rows of equal value in the order of their groups, and at most n rows.
IsTopPerMonth(t, n) ==
    /\ \A p, q \in 1..Len(t) :
          p < q /\ t[p].Month = t[q].Month
              => RanksBefore(t[p], t[q], "TotalPOOrderedValue")
    /\ \A p \in 1..Len(t) :
          Cardinality({q \in 1..Len(t) : t[q].Month = t[p].Month}) <= n

\* C9 as claimed: the top-10 tables are the first min(10, n) rows of the
\* descending sort of the full tables, rows of equal ordered value in their
\* original order; the monthly table holds the same within each month.
C9_TopTablesAreStableSorts ==
    stored # None =>
        /\ IsStableTop(StoredTables.top_10_vendors,
                       StoredTables.total_spend_by_vendor, TopN)
        /\ IsStableTop(StoredTables.top_10_materials,
                       StoredTables.total_spend_by_material, TopN)
        /\ IsTopPerMonth(StoredTables.top_10_vendors_monthly, TopN)

\* The records that miss a goods-receipt or an invoice-receipt reference.
Incomplete ==
    {i \in RowNumbers :
        IsNa(Snapshot.rows[i].GRDocumentNumber) \/ IsNa(Snapshot.rows[i].IRDocumentNumber)}

\* C10: the delayed POs are the records that miss a goods-receipt or an
\* invoice-receipt reference, one row each in the order of the snapshot,
\* whatever their delivery delay, with the output columns of the record table.
C10_DelayedPOs ==
    stored # None =>
        LET rows == StoredTables.delayed_pos.rows
        IN /\ Len(rows) = Cardinality(Incomplete)
           /\ Labels(rows) = {Snapshot.rows[i].index : i \in Incomplete}
           /\ \A p, q \in 1..Len(rows) : p < q => rows[p].index < rows[q].index
           /\ StoredTables.delayed_pos.columns = output_columns
           /\ \A p \in 1..Len(rows) : \A i \in RowNumbers :
                 Snapshot.rows[i].index = rows[p].index
                     => rows[p] = Project(StoredTables.df.rows[i], output_columns)

\* A snapshot with a late delivery that has both references, which is not
\* among the delayed POs, and an early delivery without a reference, which is.
C10_Witness ==
    /\ stored # None
    /\ \E i \in RowNumbers \ Incomplete :
          /\ Val(StoredTables.df.rows[i].DeliveryDelay) > 0
          /\ Snapshot.rows[i].index \notin Labels(StoredTables.delayed_pos.rows)
    /\ \E i \in Incomplete :
          /\ Val(StoredTables.df.rows[i].DeliveryDelay) < 0
          /\ Snapshot.rows[i].index \in Labels(StoredTables.delayed_pos.rows)

\* The records invoiced above the ordered value, both values being numbers.
InvoicedAbove ==
    {Snapshot.rows[i].index :
        i \in {j \in RowNumbers :
                  /\ HasValue(Snapshot.rows[j].POOrderedValue)
                  /\ HasValue(Snapshot.rows[j].POInvoiceValue)
                  /\ Snapshot.rows[j].POInvoiceValue.v > Snapshot.rows[j].POOrderedValue.v}}

\* The records invoiced below the ordered value, both values being numbers.
InvoicedBelow ==
    {Snapshot.rows[i].index :
        i \in {j \in RowNumbers :
                  /\ HasValue(Snapshot.rows[j].POOrderedValue)
                  /\ HasValue(Snapshot.rows[j].POInvoiceValue)
                  /\ Snapshot.rows[j].POInvoiceValue.v < Snapshot.rows[j].POOrderedValue.v}}

\* Every row of a sheet carries, in a column, the difference of two raw
\* values of its record, and the difference is strictly positive.
ReportsDifference(rows, col, minuend, subtrahend) ==
    \A p \in 1..Len(rows) : \A i \in RowNumbers :
        Snapshot.rows[i].index = rows[p].index
            => /\ rows[p][col] = Num(Snapshot.rows[i][minuend].v - Snapshot.rows[i][subtrahend].v)
               /\ Val(rows[p][col]) > 0

\* C11: the overbilling cases are exactly the records invoiced above the
\* ordered value, one row each; the underbilling cases of the export are
\* exactly the records invoiced below it, one row each, with a strictly
\* positive underbilling amount, ordered minus invoiced value; a record of
\* equal values is in neither.  The example 1000/1200, 500/500, 300/250 gives
\* one overbilling row of 200 and one underbilling row of 50.
C11_BillingCases ==
    stored # None =>
        /\ Labels(StoredTables.overbilling_cases.rows) = InvoicedAbove
        /\ Len(StoredTables.overbilling_cases.rows) = Cardinality(InvoicedAbove)
        /\ Labels(StoredTables.overbilling_df.rows) = InvoicedAbove
        /\ Len(StoredTables.overbilling_df.rows) = Cardinality(InvoicedAbove)
        /\ ReportsDifference(StoredTables.overbilling_df.rows, "OverbillingAmount",
                             "POInvoiceValue", "POOrderedValue")
        /\ download.status = "offered" =>
              /\ Labels(download.OverbillingAnalysis.rows) = InvoicedAbove
              /\ Labels(download.UnderbillingAnalysis.rows) = InvoicedBelow
              /\ Len(download.UnderbillingAnalysis.rows) = Cardinality(InvoicedBelow)
              /\ ReportsDifference(download.UnderbillingAnalysis.rows, "UnderbillingAmount",
                                   "POOrderedValue", "POInvoiceValue")
        /\ (Snapshot = ExampleFile /\ download.status = "offered") =>
              /\ Len(download.OverbillingAnalysis.rows) = 1
              /\ download.OverbillingAnalysis.rows[1].OverbillingAmount = Num(200)
              /\ Len(download.UnderbillingAnalysis.rows) = 1
              /\ download.UnderbillingAnalysis.rows[1].UnderbillingAmount = Num(50)

\* The report of the example snapshot has been generated.
C11_Witness ==
    /\ stored # None
    /\ Snapshot = ExampleFile
    /\ download.status = "offered"
    /\ Cardinality(InvoicedAbove) = 1
    /\ Cardinality(InvoicedBelow) = 1
\* The record has both dates and was delivered before its document date.
DeliveredBeforeDocument(raw) ==
    /\ HasValue(raw.DeliveryDate)
    /\ HasValue(raw.DocumentDate)
    /\ raw.DeliveryDate.v < raw.DocumentDate.v

\* C12: a record is flagged as backdated if and only if its delivery date is
\* present and strictly earlier than its document date; a record without a
\* delivery date is not flagged although its delivery delay is -1.
C12_IsBackdated ==
    stored # None =>
        \A i \in RowNumbers :
            LET raw == Snapshot.rows[i]
                row == StoredTables.df.rows[i]
            IN /\ row.Delivery_Date_Anomaly = DeliveredBeforeDocument(raw)
               /\ ~HasValue(raw.DeliveryDate) =>
                     /\ row.Delivery_Date_Anomaly = FALSE
                     /\ row.DeliveryDelay = Num(-1)

\* A snapshot with a flagged record and a record without a delivery date.
C12_Witness ==
    /\ stored # None
    /\ \E i \in RowNumbers : StoredTables.df.rows[i].Delivery_Date_Anomaly
    /\ \E i \in RowNumbers :
          /\ ~HasValue(Snapshot.rows[i].DeliveryDate)
          /\ HasValue(Snapshot.rows[i].DocumentDate)

PORaisedAfterDelivery == Str("PO raised after delivery")

\* C14 as claimed: the delay reason is 'PO raised after delivery' exactly on
\* the records flagged as backdated and empty on the others, the records
\* with a missing date included.
C14_ReasonAgreesWithAnomaly ==
    stored # None =>
        \A i \in RowNumbers :
            LET row == StoredTables.df.rows[i]
            IN row.WhyPODelay =
                  IF row.Delivery_Date_Anomaly THEN PORaisedAfterDelivery ELSE Str("")

\* C14 (amended): the delay reason is 'PO raised after delivery' exactly when
\* the delivery delay is negative, that is on the records flagged as
\* backdated and on the records whose delivery date or document date is
\* missing (delay -1), and empty otherwise; the two signals agree on every
\* record that has both dates.
C14_ReasonFollowsDelay ==
    stored # None =>
        \A i \in RowNumbers :
            LET raw == Snapshot.rows[i]
                row == StoredTables.df.rows[i]
            IN /\ row.WhyPODelay =
                    IF Val(row.DeliveryDelay) < 0 THEN PORaisedAfterDelivery ELSE Str("")
               /\ row.WhyPODelay = PORaisedAfterDelivery
                     <=> \/ row.Delivery_Date_Anomaly
                         \/ ~HasValue(raw.DeliveryDate)
                         \/ ~HasValue(raw.DocumentDate)

\* A snapshot with a record without a delivery date, which has the reason
\* and not the flag, and a record delivered after its document date, which
\* has neither.
C14_Witness ==
    /\ stored # None
    /\ \E i \in RowNumbers :
          /\ ~HasValue(Snapshot.rows[i].DeliveryDate)
          /\ StoredTables.df.rows[i].WhyPODelay = PORaisedAfterDelivery
          /\ ~StoredTables.df.rows[i].Delivery_Date_Anomaly
    /\ \E i \in RowNumbers :
          /\ Val(StoredTables.df.rows[i].DeliveryDelay) > 0
          /\ StoredTables.df.rows[i].WhyPODelay = Str("")
\* The names of the aggregate and subset tables stored for a snapshot.
AggregateTables(st) == DOMAIN st.tables \ {"df", "processed"}

\* The session store ss holds the tables that were stored for one snapshot,
\* st: every aggregate table as stored, and the record table with every row,
\* column and value it was stored with.
HoldsTablesOf(ss, st) ==
    /\ \A t \in AggregateTables(st) : ss[t] = st.tables[t]
    /\ st.tables.df.columns \subseteq ss.df.columns
    /\ Len(ss.df.rows) = Len(st.tables.df.rows)
    /\ \A i \in 1..Len(st.tables.df.rows) :
          [c \in DOMAIN st.tables.df.rows[i] |-> ss.df.rows[i][c]] = st.tables.df.rows[i]

\* The export offered is the one made of the tables stored for st.
ExportsTablesOf(offered, st, ties) ==
    offered.status = "offered" =>
        /\ offered.TotalSpendByVendor = st.tables.total_spend_by_vendor
        /\ offered.VendorAnalysis = st.tables.vendor_summary
        /\ offered.DelayedPOs = st.tables.delayed_pos
        /\ offered.QuantityErrors = st.tables.quantity_errors
        /\ offered.OverbillingAnalysis = overbilling_analysis(st.tables, ties)
        /\ offered.UnderbillingAnalysis = underbilling_analysis(st.tables, ties)

\* The session holds, serves and exports the tables of the snapshot that was
\* processed in it.
C13_Held ==
    session_state.processed =>
        /\ stored # None
        /\ HoldsTablesOf(session_state, stored[1])
        /\ ExportsTablesOf(download, stored[1], quicksort_ties)
        /\ served \in ViewNames \cup {"TypeError"}

\* A step of a session in which a snapshot has been processed neither
\* processes again nor clears the flag.
C13_Step ==
    (session_state.processed /\ sessions' = sessions) =>
        /\ session_state'.processed
        /\ stored' = stored

\* C13: once a snapshot has been processed in a session, no later run of the
\* script processes again or replaces the stored tables, whether it sees the
\* same file, another file or no file; the session store, the views and the
\* export keep the tables of the first processed snapshot, unmixed.
C13_SessionLifecycle == [](C13_Held) /\ [][C13_Step]_vars

\* After a snapshot was processed another file is uploaded, and a view is
\* served from the tables of the first.
C13_Witness ==
    /\ session_state.processed
    /\ stored # None
    /\ uploaded_file # None
    /\ uploaded_file[1] # Snapshot
    /\ ~RaisesKeyError(uploaded_file[1])
    /\ served \in ViewNames
    /\ download.status = "offered"

====
